---- MODULE Spec2Model ----
(***************************************************************************)
(* Model of the quantum-id-system: the PQC identity records of            *)
(* id_system.py and the proof-of-work ledger of blockchain.py.            *)
(*                                                                         *)
(* Python objects live in heaps, because the code shares them by           *)
(* reference: `lists` holds the list objects (pending_ids and every        *)
(* block's digital_ids), `objs` the objects stored in those lists (the     *)
(* genesis string and the digital-id dicts) and `uds` the user_info dicts  *)
(* a digital id points to.  SHA-256 is taken to be collision free: a       *)
(* digest is its first HexLen hex digits, computed from the serialised     *)
(* input, together with that input.  ML-DSA is taken to be unforgeable: a  *)
(* signature names the key pair and the message it was made for.           *)
(***************************************************************************)
EXTENDS Integers, Sequences, FiniteSets, TLC

\* ------------------------------------------------------------------ bounds
MaxChain == 3
MaxPending == 2
MaxObjs == 3
MaxUds == 2
MaxClock == 1
MaxDifficulty == 4
HexLen == 4
MaxTamper == 1
MaxRegistered == 3

\* ------------------------------------------------------------ input domains
Keys == {"id", "purpose"}
Values == {"A", "X"}
UserInfos == [Keys -> Values]
\* the user_info dicts the ledger's callers start from
LedgerInfos == {[k \in Keys |-> "A"]}
Difficulties == 0..MaxDifficulty
\* mine_pending_ids(difficulty=3)
DEFAULT_DIFFICULTY == 3
ML_DSA == "ML-DSA-44"
GenesisText == "Genesis Block: System Initialized"
\* an object json.dumps cannot encode: register_id accepts anything
Opaque == 0

VARIABLES chain, pending_ids, lists, objs, uds, clock, ret, issued, tamperLog,
          registered, calls

vars == <<chain, pending_ids, lists, objs, uds, clock, ret, issued, tamperLog,
          registered, calls>>

\* the threads that may call into the ledger at the same time
Threads == {1, 2}

Heap == [lists |-> lists, objs |-> objs, uds |-> uds]

\* ------------------------------------------------------- json.dumps, sha256
\* the keys of a user_info dict in the order sort_keys=True writes them
KeyOrder == <<"id", "purpose">>

Code(s) ==
  CASE s = "A" -> 1
    [] s = "X" -> 2
    [] s = "id" -> 3
    [] s = "purpose" -> 4
    [] s = "0" -> 5
    [] s = GenesisText -> 6
    [] s = ML_DSA -> 7
    [] OTHER -> 8

Modulus == 2 ^ HexLen
\* Mix is periodic in the nonce with period Modulus: a target not met in
\* Modulus passes of the mining loop is never met
MaxNonce == Modulus

RECURSIVE SumSeq(_)
SumSeq(s) == IF s = <<>> THEN 0 ELSE Head(s) + SumSeq(Tail(s))

\* json.dumps(d, sort_keys=True) of a user_info dict
dumps_user_info(ud) ==
  LET ks == SelectSeq(KeyOrder, LAMBDA k : k \in DOMAIN ud)
  IN  [dict |-> [i \in 1..Len(ks) |-> <<ks[i], [str |-> ud[ks[i]]]>>]]

\* json.dumps of a stored object: a string, or a digital-id dict with its
\* keys sorted; user_data is followed through the reference
dumps_obj(o, H) ==
  IF o.kind = "str" THEN [str |-> o.str]
  ELSE IF o.kind = "opaque" THEN [raises |-> "TypeError"]
  ELSE [dict |-> << <<"id_type", [str |-> o.id_type]>>,
                    <<"pqc_scheme", [str |-> o.pqc_scheme]>>,
                    <<"public_key", o.public_key>>,
                    <<"signature", o.signature>>,
                    <<"timestamp", [num |-> o.timestamp]>>,
                    <<"user_data", dumps_user_info(H.uds[o.user_data])>> >>]

\* the object a list item refers to
Obj(r, H) == IF r = Opaque THEN [kind |-> "opaque"] ELSE H.objs[r]

\* json.dumps raises TypeError on an object it cannot encode
Serializable(ids, H) == \A i \in 1..Len(H.lists[ids]) : H.lists[ids][i] # Opaque

\* the number the leading hex digits of a digest are derived from
RECURSIVE Mix(_)
MixPairs(ps) ==
  LET RECURSIVE go(_, _)
      go(h, i) == IF i > Len(ps) THEN h
                  ELSE go((h * 3 + Code(ps[i][1]) + Mix(ps[i][2])) % Modulus, i + 1)
  IN  go(1, 1)
MixList(xs) ==
  LET RECURSIVE go(_, _)
      go(h, i) == IF i > Len(xs) THEN h
                  ELSE go((h * 5 + Mix(xs[i])) % Modulus, i + 1)
  IN  go(2, 1)
MixBytes(b) ==
  IF "head" \in DOMAIN b THEN SumSeq(b.head) % Modulus
  ELSE IF "pk" \in DOMAIN b THEN (b.pk + 1) % Modulus
  ELSE (b.signer + SumSeq(b.msg.head)) % Modulus
Mix(j) ==
  IF "str" \in DOMAIN j THEN Code(j.str)
  ELSE IF "num" \in DOMAIN j THEN j.num % Modulus
  ELSE IF "hexstr" \in DOMAIN j THEN MixBytes(j.hexstr)
  ELSE IF "list" \in DOMAIN j THEN MixList(j.list)
  ELSE MixPairs(j.dict)

\* the first HexLen hex digits of a digest
HeadDigits(m) ==
  [i \in 1..HexLen |-> IF (m \div (2 ^ (i - 1))) % 2 = 0 THEN 0 ELSE 1 + (m % 15)]

\* hashlib.sha256(data): the digest bytes
sha256(data) == [head |-> HeadDigits(Mix(data)), pre |-> data]

\* bytes.hex() and bytes.fromhex()
hex(b) == [hexstr |-> b]
IsHex(s) == "hexstr" \in DOMAIN s
fromhex(s) == s.hexstr

\* str.startswith('0' * d); only HexLen digits of a digest are modelled, a
\* longer prefix is never found
startswith_zeros(s, d) ==
  IF IsHex(s)
  THEN d <= HexLen /\ \A i \in 1..d : s.hexstr.head[i] = 0
  ELSE d = 0 \/ (d = 1 /\ s.str = "0")

\* --------------------------------------------------------------- class Block
calculate_hash_no_data(b, H) ==
  hex(sha256([dict |-> << <<"index", [num |-> b.index]>>,
                          <<"nonce", [num |-> b.nonce]>>,
                          <<"previous_hash", b.previous_hash>>,
                          <<"timestamp", [num |-> b.timestamp]>> >>]))
calculate_hash(b, H) ==
  hex(sha256([dict |-> << <<"data", [list |-> [i \in 1..Len(H.lists[b.digital_ids]) |->
                                          dumps_obj(Obj(H.lists[b.digital_ids][i], H), H)]]>>,
                          <<"index", [num |-> b.index]>>,
                          <<"nonce", [num |-> b.nonce]>>,
                          <<"previous_hash", b.previous_hash>>,
                          <<"timestamp", [num |-> b.timestamp]>> >>]))

Block_unhashed(index, digital_ids, previous_hash, now, H) ==
  [index |-> index, timestamp |-> now, digital_ids |-> digital_ids,
   previous_hash |-> previous_hash, nonce |-> 1, hash |-> [str |-> ""]]
Block(index, digital_ids, previous_hash, now, H) ==
  LET b0 == [index |-> index, timestamp |-> now, digital_ids |-> digital_ids,
             previous_hash |-> previous_hash, nonce |-> 0, hash |-> [str |-> ""]]
  IN  [b0 EXCEPT !.hash = calculate_hash(b0, H)]

\* self.hash.startswith(target_prefix), target_prefix = '0' * difficulty
target_met_short(hash, difficulty) ==
  difficulty = 0 \/ startswith_zeros(hash, difficulty - 1)
target_met(hash, difficulty) == startswith_zeros(hash, difficulty)

\* one pass of the loop body: self.nonce += 1; self.hash = self.calculate_hash()
mine_step_stale(b, H) ==
  [b EXCEPT !.nonce = @ + 1, !.hash = calculate_hash(b, H)]
mine_step(b, H) ==
  LET b1 == [b EXCEPT !.nonce = @ + 1]
  IN  [b1 EXCEPT !.hash = calculate_hash(b1, H)]

\* the while loop of mine_block; the loop has no bound of its own, the model
\* follows it for MaxNonce passes and `returned` tells whether it ended
RECURSIVE mine_loop(_, _, _, _)
mine_loop(b, difficulty, H, fuel) ==
  IF target_met(b.hash, difficulty) THEN [block |-> b, returned |-> TRUE]
  ELSE IF fuel = 0 THEN [block |-> b, returned |-> FALSE]
  ELSE mine_loop(mine_step(b, H), difficulty, H, fuel - 1)

mine_block(b, difficulty, H) == mine_loop(b, difficulty, H, MaxNonce)

\* ---------------------------------------------------------- class Blockchain
last_block == chain[Len(chain)]

\* is_chain_valid: the first failing block and the check that failed; kind
\* "raised" stands for the TypeError of calculate_hash, which returns nothing
RECURSIVE valid_from_no_link_check(_, _, _)
valid_from_no_link_check(i, ch, H) ==
  IF i >= Len(ch) THEN [value |-> TRUE, index |-> 0, kind |-> "none"]
  ELSE IF ~Serializable(ch[i + 1].digital_ids, H)
       THEN [value |-> FALSE, index |-> i, kind |-> "raised"]
       ELSE IF ch[i + 1].hash # calculate_hash(ch[i + 1], H)
       THEN [value |-> FALSE, index |-> i, kind |-> "hash"]
       ELSE valid_from_no_link_check(i + 1, ch, H)
RECURSIVE valid_from_no_hash_check(_, _, _)
valid_from_no_hash_check(i, ch, H) ==
  IF i >= Len(ch) THEN [value |-> TRUE, index |-> 0, kind |-> "none"]
  ELSE IF ch[i + 1].previous_hash # ch[i].hash
       THEN [value |-> FALSE, index |-> i, kind |-> "link"]
       ELSE valid_from_no_hash_check(i + 1, ch, H)
RECURSIVE valid_from_link_first(_, _, _)
valid_from_link_first(i, ch, H) ==
  IF i >= Len(ch) THEN [value |-> TRUE, index |-> 0, kind |-> "none"]
  ELSE IF ch[i + 1].previous_hash # ch[i].hash
       THEN [value |-> FALSE, index |-> i, kind |-> "link"]
       ELSE IF ~Serializable(ch[i + 1].digital_ids, H)
       THEN [value |-> FALSE, index |-> i, kind |-> "raised"]
       ELSE IF ch[i + 1].hash # calculate_hash(ch[i + 1], H)
       THEN [value |-> FALSE, index |-> i, kind |-> "hash"]
       ELSE valid_from_link_first(i + 1, ch, H)
RECURSIVE valid_from(_, _, _)
valid_from(i, ch, H) ==
  IF i >= Len(ch) THEN [value |-> TRUE, index |-> 0, kind |-> "none"]
  ELSE LET current_block == ch[i + 1]
           previous_block == ch[i]
       IN  IF ~Serializable(current_block.digital_ids, H)
           THEN [value |-> FALSE, index |-> i, kind |-> "raised"]
           ELSE IF current_block.hash # calculate_hash(current_block, H)
           THEN [value |-> FALSE, index |-> i, kind |-> "hash"]
           ELSE IF current_block.previous_hash # previous_block.hash
           THEN [value |-> FALSE, index |-> i, kind |-> "link"]
           ELSE valid_from(i + 1, ch, H)

is_chain_valid_from_genesis(ch, H) ==
  IF ch[1].hash # calculate_hash(ch[1], H)
  THEN [value |-> FALSE, index |-> 0, kind |-> "hash"]
  ELSE valid_from(1, ch, H)
is_chain_valid(ch, H) == valid_from(1, ch, H)

Result(op, r) == [op |-> op, value |-> r.value, index |-> r.index, kind |-> r.kind]
Done(op, v) == [op |-> op, value |-> v, index |-> 0, kind |-> "none"]

\* Blockchain(): create_genesis_block appends Block(0, [text], "0")
Init ==
  /\ objs = << [kind |-> "str", str |-> GenesisText] >>
  /\ uds = <<>>
  /\ lists = << <<1>>, <<>> >>
  /\ pending_ids = 2
  /\ clock = 0
  /\ chain = << Block(0, 1, [str |-> "0"], 0,
                      [lists |-> << <<1>>, <<>> >>,
                       objs |-> << [kind |-> "str", str |-> GenesisText] >>,
                       uds |-> <<>>]) >>
  /\ ret = Done("init", TRUE)
  /\ issued = << <<>> >>
  /\ tamperLog = <<>>
  /\ registered = <<>>
  /\ calls = [t \in Threads |-> [pc |-> "idle"]]

\* ------------------------------------------------- the signature provider
\* pqcrypto.sign.ml_dsa_44: a fresh key pair per call, named by its seed
generate_keypair(seed) == [public_key |-> [pk |-> seed], secret_key |-> [sk |-> seed]]
sign(secret_key, message) == [signer |-> secret_key.sk, msg |-> message]
verify(public_key, message, signature) ==
  /\ "pk" \in DOMAIN public_key
  /\ "signer" \in DOMAIN signature
  /\ signature.signer = public_key.pk
  /\ signature.msg = message

\* ------------------------------------------------------------- id_system.py
\* the digest both generate_pqc_id and verify_pqc_id compute of a user_info
data_hash_id_only(user_info) ==
  sha256(dumps_user_info([k \in DOMAIN user_info \cap {"id"} |-> user_info[k]]))
data_hash(user_info) == sha256(dumps_user_info(user_info))

\* generate_pqc_id(user_info): u is the reference to the caller's dict
generate_pqc_id_unhashed(u, seed, now, H) ==
  LET kp == generate_keypair(seed)
      signature == sign(kp.secret_key, dumps_user_info(H.uds[u]))
  IN  [kind |-> "dict", id_type |-> "E-GOV_PQC_ID", pqc_scheme |-> ML_DSA,
       user_data |-> u, public_key |-> hex(kp.public_key),
       signature |-> hex(signature), timestamp |-> now]
generate_pqc_id(u, seed, now, H) ==
  LET kp == generate_keypair(seed)
      signature == sign(kp.secret_key, data_hash(H.uds[u]))
  IN  [kind |-> "dict", id_type |-> "E-GOV_PQC_ID", pqc_scheme |-> ML_DSA,
       user_data |-> u, public_key |-> hex(kp.public_key),
       signature |-> hex(signature), timestamp |-> now]

\* the try block of verify_pqc_id: bytes.fromhex raises ValueError on a string
\* that is not hex; pqc_scheme and id_type are not read
verify_try(o, H) ==
  IF ~IsHex(o.public_key) \/ ~IsHex(o.signature)
  THEN [raised |-> TRUE, value |-> FALSE]
  ELSE [raised |-> FALSE,
        value |-> verify(fromhex(o.public_key), data_hash(H.uds[o.user_data]),
                         fromhex(o.signature))]

\* verify_pqc_id(digital_id): except Exception gives False
verify_pqc_id(o, H) ==
  LET t == verify_try(o, H)
  IN  IF t.raised THEN FALSE ELSE t.value

\* the digital ids created so far
Records == {r \in 1..Len(objs) : objs[r].kind = "dict"}

\* ------------------------------------------------------------------ actions
\* the values a call of time() may return: the clock never runs backwards
Time == {t \in clock..(clock + 1) : t <= MaxClock}

\* what the calls that return nothing leave in ret
None == Done("none", TRUE)

\* the caller builds a user_info dict with a content of infos (or takes one
\* it already has, u) and calls generate_pqc_id on it
GeneratePqcId(infos) ==
  /\ Len(objs) < MaxObjs
  /\ \E u \in 1..(Len(uds) + 1) :
       /\ u <= MaxUds
       /\ \E info \in (IF u <= Len(uds) THEN {uds[u]} ELSE infos) :
            /\ uds' = IF u <= Len(uds) THEN uds ELSE Append(uds, info)
            /\ objs' = Append(objs, generate_pqc_id(u, Len(objs) + 1, clock,
                                  [lists |-> lists, objs |-> objs, uds |-> uds']))
            /\ issued' = Append(issued, info)
  /\ ret' = [Done("generate_pqc_id", TRUE) EXCEPT !.index = Len(objs) + 1]
  /\ UNCHANGED <<chain, pending_ids, lists, clock, tamperLog, registered, calls>>

VerifyPqcId ==
  /\ \E r \in Records :
       ret' = [Done("verify_pqc_id", verify_pqc_id(objs[r], Heap)) EXCEPT !.index = r]
  /\ UNCHANGED <<chain, pending_ids, lists, objs, uds, clock, issued, tamperLog, registered, calls>>

\* register_id(digital_id): pending_ids.append(digital_id)
register_id_front(ls, p, digital_id) == [ls EXCEPT ![p] = <<digital_id>> \o @]
register_id(ls, p, digital_id) == [ls EXCEPT ![p] = Append(@, digital_id)]

\* the caller registers one of rs
RegisterId(rs) ==
  /\ Len(lists[pending_ids]) < MaxPending
  /\ \E r \in rs :
       /\ lists' = register_id(lists, pending_ids, r)
       /\ registered' = Append(registered, r)
       /\ ret' = None
  /\ UNCHANGED <<chain, pending_ids, objs, uds, clock, issued, tamperLog, calls>>

\* the block mine_pending_ids builds from the pending list, before mining:
\* digital_ids is the pending list itself, not a copy
new_block_wrong_link(ch, p, now, H) ==
  Block(ch[Len(ch)].index + 1, p, ch[Len(ch)].previous_hash, now, H)
new_block_same_index(ch, p, now, H) ==
  Block(ch[Len(ch)].index, p, ch[Len(ch)].hash, now, H)
new_block(ch, p, now, H) ==
  Block(ch[Len(ch)].index + 1, p, ch[Len(ch)].hash, now, H)

\* self.pending_ids = []: the name is bound to a new list object
clear_pending_kept(ls, p) == [lists |-> ls, pending_ids |-> p]
clear_pending_in_place(ls, p) == [lists |-> [ls EXCEPT ![p] = <<>>], pending_ids |-> p]
clear_pending(ls, p) == [lists |-> Append(ls, <<>>), pending_ids |-> Len(ls) + 1]

\* if not self.pending_ids: return
nothing_pending_never(ls, p) == FALSE
nothing_pending(ls, p) == ls[p] = <<>>

\* mine_pending_ids(difficulty), difficulty drawn from ds
MinePendingIds(ds) ==
  \E difficulty \in ds :
    \/ /\ nothing_pending(lists, pending_ids)
       /\ ret' = [Done("mine_pending_ids", FALSE) EXCEPT !.kind = "noop"]
       /\ UNCHANGED <<chain, pending_ids, lists, objs, uds, clock, issued, tamperLog, registered, calls>>
    \/ /\ ~nothing_pending(lists, pending_ids)
       /\ ~Serializable(pending_ids, Heap)
       /\ ret' = [Done("mine_pending_ids", FALSE) EXCEPT !.kind = "raised"]
       /\ UNCHANGED <<chain, pending_ids, lists, objs, uds, clock, issued, tamperLog, registered, calls>>
    \/ /\ ~nothing_pending(lists, pending_ids)
       /\ Serializable(pending_ids, Heap)
       /\ Len(chain) < MaxChain
       /\ \E now \in Time :
            LET m == mine_block(new_block(chain, pending_ids, now, Heap), difficulty, Heap)
                c == clear_pending(lists, pending_ids)
            IN  /\ m.returned
                /\ clock' = now
                /\ chain' = Append(chain, m.block)
                /\ lists' = c.lists
                /\ pending_ids' = c.pending_ids
                /\ ret' = [Done("mine_pending_ids", TRUE) EXCEPT !.index = difficulty]
       /\ UNCHANGED <<objs, uds, issued, tamperLog, registered, calls>>

IsChainValid ==
  /\ ret' = Result("is_chain_valid", is_chain_valid(chain, Heap))
  /\ UNCHANGED <<chain, pending_ids, lists, objs, uds, clock, issued, tamperLog, registered, calls>>

\* the ledger and its callers, nothing mutated from outside
Next ==
  \/ GeneratePqcId(LedgerInfos)
  \/ RegisterId(Records \cup {Opaque})
  \/ MinePendingIds(Difficulties)
  \/ IsChainValid

Spec == Init /\ [][Next]_vars

\* ------------------------------------------- the identity records on their own
\* the holder of a reference changes a value of a user_info dict in place:
\* tampered_id['user_data'][key] = val
set_item(ds, u, key, val) == [ds EXCEPT ![u][key] = val]

SetUserData ==
  /\ \E u \in 1..Len(uds) : \E key \in Keys : \E val \in Values :
       /\ val # uds[u][key]
       /\ uds' = set_item(uds, u, key, val)
  /\ ret' = None
  /\ UNCHANGED <<chain, pending_ids, lists, objs, clock, issued, tamperLog, registered, calls>>

NextId ==
  \/ GeneratePqcId(UserInfos)
  \/ VerifyPqcId
  \/ SetUserData

SpecId == Init /\ [][NextId]_vars

\* --------------------------------- identity records presented by an attacker
\* the strings an attacker may write into public_key or signature: one that
\* is not hex, and the hex strings of the records issued so far
ForgedKeys == {[str |-> "zz"]} \cup {objs[q].public_key : q \in Records}
ForgedSignatures == {[str |-> "zz"]} \cup {objs[q].signature : q \in Records}
ForgedSchemes == {"RSA-2048"}

\* digital_id['public_key'] = v
SetPublicKey ==
  /\ \E r \in Records : \E v \in ForgedKeys :
       /\ v # objs[r].public_key
       /\ objs' = [objs EXCEPT ![r].public_key = v]
  /\ ret' = None
  /\ UNCHANGED <<chain, pending_ids, lists, uds, clock, issued, tamperLog, registered, calls>>

\* digital_id['signature'] = v
SetSignature ==
  /\ \E r \in Records : \E v \in ForgedSignatures :
       /\ v # objs[r].signature
       /\ objs' = [objs EXCEPT ![r].signature = v]
  /\ ret' = None
  /\ UNCHANGED <<chain, pending_ids, lists, uds, clock, issued, tamperLog, registered, calls>>

\* digital_id['pqc_scheme'] = v
SetScheme ==
  /\ \E r \in Records : \E v \in ForgedSchemes :
       /\ v # objs[r].pqc_scheme
       /\ objs' = [objs EXCEPT ![r].pqc_scheme = v]
  /\ ret' = None
  /\ UNCHANGED <<chain, pending_ids, lists, uds, clock, issued, tamperLog, registered, calls>>

NextForge ==
  \/ GeneratePqcId(UserInfos)
  \/ VerifyPqcId
  \/ SetPublicKey
  \/ SetSignature
  \/ SetScheme

SpecForge == Init /\ [][NextForge]_vars

\* ------------------------------------------- the ledger mutated from outside
\* the block at Python index k
B(k) == chain[k + 1]
Indices == 0..(Len(chain) - 1)
Positions(k) == 1..Len(lists[B(k).digital_ids])
Item(k, i) == lists[B(k).digital_ids][i]

\* the blocks whose records reach the user_info dict u, the object r
BlocksOfDict(u) ==
  {k \in Indices \ {0} : \E i \in Positions(k) : objs[Item(k, i)].user_data = u}
BlocksOfObj(r) == {k \in Indices \ {0} : \E i \in Positions(k) : Item(k, i) = r}

\* chain[k].digital_ids[i]['user_data'][key] = val, as tamper_chain does
TamperUserData ==
  /\ Len(tamperLog) < MaxTamper
  /\ \E k \in Indices \ {0} : \E i \in Positions(k) : \E key \in Keys : \E val \in Values :
       LET u == objs[Item(k, i)].user_data
       IN  /\ val # uds[u][key]
           /\ uds' = set_item(uds, u, key, val)
           /\ tamperLog' = Append(tamperLog, [kind |-> "user_data", k |-> k,
                                              blocks |-> BlocksOfDict(u)])
  /\ ret' = None
  /\ UNCHANGED <<chain, pending_ids, lists, objs, clock, issued, registered, calls>>

\* chain[k].digital_ids[i]['id_type'] = 'FORGED'
TamperIdType ==
  /\ Len(tamperLog) < MaxTamper
  /\ \E k \in Indices \ {0} : \E i \in Positions(k) :
       /\ objs[Item(k, i)].id_type # "FORGED"
       /\ objs' = [objs EXCEPT ![Item(k, i)].id_type = "FORGED"]
       /\ tamperLog' = Append(tamperLog, [kind |-> "id_type", k |-> k,
                                          blocks |-> BlocksOfObj(Item(k, i))])
  /\ ret' = None
  /\ UNCHANGED <<chain, pending_ids, lists, uds, clock, issued, registered, calls>>

\* the values an attacker may write into previous_hash
ForgedHashes == {[str |-> "0"], [str |-> "f00d"]} \cup {chain[j].hash : j \in 1..Len(chain)}

\* chain[k].previous_hash = v, v not the hash of the block before
TamperPreviousHash ==
  /\ Len(tamperLog) < MaxTamper
  /\ \E k \in Indices \ {0} : \E v \in ForgedHashes :
       /\ v # B(k - 1).hash
       /\ chain' = [chain EXCEPT ![k + 1].previous_hash = v]
       /\ tamperLog' = Append(tamperLog, [kind |-> "previous_hash", k |-> k, blocks |-> {k}])
  /\ ret' = None
  /\ UNCHANGED <<pending_ids, lists, objs, uds, clock, issued, registered, calls>>

\* chain[k].hash = chain[k].calculate_hash(): the stored hash is overwritten
\* with the one recomputed from the block as it now is
RehashBlock ==
  /\ \E k \in Indices \ {0} :
       /\ B(k).hash # calculate_hash(B(k), Heap)
       /\ chain' = [chain EXCEPT ![k + 1].hash = calculate_hash(B(k), Heap)]
       /\ tamperLog' = Append(tamperLog, [kind |-> "rehash", k |-> k, blocks |-> {k}])
  /\ ret' = None
  /\ UNCHANGED <<pending_ids, lists, objs, uds, clock, issued, registered, calls>>

\* the ledger is built by its own operations, then mutated, then validated
NextTamper ==
  \/ (tamperLog = <<>> /\ GeneratePqcId(LedgerInfos))
  \/ (tamperLog = <<>> /\ RegisterId(Records))
  \/ (tamperLog = <<>> /\ MinePendingIds({DEFAULT_DIFFICULTY}))
  \/ IsChainValid
  \/ TamperUserData
  \/ TamperIdType
  \/ TamperPreviousHash
  \/ RehashBlock

SpecTamper == Init /\ [][NextTamper]_vars

\* ------------------------------- the ledger holding attacker-chosen values
\* chain[k].digital_ids[i] = v, v an object json.dumps cannot encode
TamperRecord ==
  /\ Len(tamperLog) < MaxTamper
  /\ \E k \in Indices \ {0} : \E i \in Positions(k) :
       /\ Item(k, i) # Opaque
       /\ lists' = [lists EXCEPT ![B(k).digital_ids][i] = Opaque]
       /\ tamperLog' = Append(tamperLog, [kind |-> "record", k |-> k, blocks |-> {k}])
  /\ ret' = None
  /\ UNCHANGED <<chain, pending_ids, objs, uds, clock, issued, registered, calls>>

\* the fields of the genesis block an attacker may overwrite
GenesisFields == {"index", "timestamp", "digital_ids", "previous_hash", "nonce", "hash"}
\* one field alone, all the hashed fields, or all fields
GenesisChoices ==
  {{f} : f \in GenesisFields} \cup {GenesisFields \ {"hash"}, GenesisFields}

\* the genesis block with the fields fs set to other values
forge_genesis(b, fs) ==
  [index |-> IF "index" \in fs THEN b.index + 1 ELSE b.index,
   timestamp |-> IF "timestamp" \in fs THEN b.timestamp + 1 ELSE b.timestamp,
   digital_ids |-> b.digital_ids,
   previous_hash |-> IF "previous_hash" \in fs THEN [str |-> "f00d"] ELSE b.previous_hash,
   nonce |-> IF "nonce" \in fs THEN b.nonce + 1 ELSE b.nonce,
   hash |-> IF "hash" \in fs THEN [str |-> "f00d"] ELSE b.hash]

\* chain[0].<field> = v for the fields of fs; the records are replaced in
\* place by an object json.dumps cannot encode
TamperGenesis ==
  /\ Len(tamperLog) < MaxTamper
  /\ \E fs \in GenesisChoices :
       /\ chain' = [chain EXCEPT ![1] = forge_genesis(@, fs)]
       /\ lists' = IF "digital_ids" \in fs
                   THEN [lists EXCEPT ![B(0).digital_ids] = << Opaque >>]
                   ELSE lists
       /\ tamperLog' = Append(tamperLog, [kind |-> "genesis", k |-> 0, blocks |-> {0}])
  /\ ret' = None
  /\ UNCHANGED <<pending_ids, objs, uds, clock, issued, registered, calls>>

NextAttack ==
  \/ (tamperLog = <<>> /\ GeneratePqcId(LedgerInfos))
  \/ (tamperLog = <<>> /\ RegisterId(Records))
  \/ (tamperLog = <<>> /\ MinePendingIds({DEFAULT_DIFFICULTY}))
  \/ IsChainValid
  \/ TamperRecord
  \/ TamperGenesis

SpecAttack == Init /\ [][NextAttack]_vars

\* ------------------------------------- calls running on concurrent threads
\* calls[t] is the call in flight on thread t: its position pc, the handler
\* it belongs to and its local variables.  A thread switch may fall between
\* any two of the steps below.
Idle == [pc |-> "idle"]
Quiescent == \A t \in Threads : calls[t].pc = "idle"
\* the threads that are in, or will go on to, mine_pending_ids
Miners == {t \in Threads : calls[t].pc # "idle" /\ calls[t].handler # "register_id"}

\* the threads that are in register_id
Registrars == {t \in Threads : calls[t].pc \in {"register_id", "append"}}

\* register_id(digital_id) is entered on thread t
CallRegisterId(t, rs) ==
  /\ calls[t].pc = "idle"
  /\ Len(lists[pending_ids]) < MaxPending
  /\ Len(registered) + Cardinality(Registrars) < MaxRegistered
  /\ \E r \in rs :
       calls' = [calls EXCEPT ![t] = [pc |-> "register_id", handler |-> "register_id",
                                      digital_id |-> r]]
  /\ ret' = None
  /\ UNCHANGED <<chain, pending_ids, lists, objs, uds, clock, issued, tamperLog, registered>>

\* self.pending_ids is read: the list object the name is bound to now
RegisterLoad(t) ==
  /\ calls[t].pc = "register_id"
  /\ calls' = [calls EXCEPT ![t] = [pc |-> "append", handler |-> calls[t].handler,
                                    digital_id |-> calls[t].digital_id,
                                    list |-> pending_ids]]
  /\ ret' = None
  /\ UNCHANGED <<chain, pending_ids, lists, objs, uds, clock, issued, tamperLog, registered>>

\* .append(digital_id) on the list that was read; register_id returns, and
\* create_and_mine goes on to mine_pending_ids(difficulty=3)
RegisterAppend(t) ==
  /\ calls[t].pc = "append"
  /\ lists' = register_id(lists, calls[t].list, calls[t].digital_id)
  /\ registered' = Append(registered, calls[t].digital_id)
  /\ calls' = [calls EXCEPT ![t] =
                 IF calls[t].handler = "create_and_mine"
                 THEN [pc |-> "mine_pending_ids", handler |-> calls[t].handler,
                       difficulty |-> DEFAULT_DIFFICULTY]
                 ELSE Idle]
  /\ ret' = None
  /\ UNCHANGED <<chain, pending_ids, objs, uds, clock, issued, tamperLog>>

\* mine_pending_ids(difficulty) is entered on thread t
CallMinePendingIds(t, ds) ==
  /\ calls[t].pc = "idle"
  /\ Len(chain) + Cardinality(Miners) < MaxChain
  /\ \E difficulty \in ds :
       calls' = [calls EXCEPT ![t] = [pc |-> "mine_pending_ids",
                                      handler |-> "mine_pending_ids",
                                      difficulty |-> difficulty]]
  /\ ret' = None
  /\ UNCHANGED <<chain, pending_ids, lists, objs, uds, clock, issued, tamperLog, registered>>

\* if not self.pending_ids: return
MineCheck(t) ==
  /\ calls[t].pc = "mine_pending_ids"
  /\ IF nothing_pending(lists, pending_ids)
     THEN /\ calls' = [calls EXCEPT ![t] = Idle]
          /\ ret' = [Done("mine_pending_ids", FALSE) EXCEPT !.kind = "noop"]
     ELSE /\ calls' = [calls EXCEPT ![t].pc = "build"]
          /\ ret' = None
  /\ UNCHANGED <<chain, pending_ids, lists, objs, uds, clock, issued, tamperLog, registered>>

\* new_block = Block(last_block.index + 1, self.pending_ids, last_block.hash)
MineBuild(t) ==
  /\ calls[t].pc = "build"
  /\ Serializable(pending_ids, Heap)
  /\ \E now \in Time :
       /\ clock' = now
       /\ calls' = [calls EXCEPT ![t] = [pc |-> "mine", handler |-> calls[t].handler,
                                         difficulty |-> calls[t].difficulty,
                                         new_block |-> new_block(chain, pending_ids, now, Heap)]]
  /\ ret' = None
  /\ UNCHANGED <<chain, pending_ids, lists, objs, uds, issued, tamperLog, registered>>

\* the test of the while loop of mine_block and, when it fails, one pass
MinePass(t) ==
  /\ calls[t].pc = "mine"
  /\ IF target_met(calls[t].new_block.hash, calls[t].difficulty)
     THEN calls' = [calls EXCEPT ![t].pc = "chain_append"]
     ELSE calls' = [calls EXCEPT ![t].new_block = mine_step(@, Heap)]
  /\ ret' = None
  /\ UNCHANGED <<chain, pending_ids, lists, objs, uds, clock, issued, tamperLog, registered>>

\* self.chain.append(new_block)
MineAppend(t) ==
  /\ calls[t].pc = "chain_append"
  /\ chain' = Append(chain, calls[t].new_block)
  /\ calls' = [calls EXCEPT ![t].pc = "clear"]
  /\ ret' = None
  /\ UNCHANGED <<pending_ids, lists, objs, uds, clock, issued, tamperLog, registered>>

\* self.pending_ids = []; mine_pending_ids returns
MineClear(t) ==
  /\ calls[t].pc = "clear"
  /\ LET c == clear_pending(lists, pending_ids)
     IN  /\ lists' = c.lists
         /\ pending_ids' = c.pending_ids
  /\ calls' = [calls EXCEPT ![t] = Idle]
  /\ ret' = [Done("mine_pending_ids", TRUE) EXCEPT !.index = calls[t].difficulty]
  /\ UNCHANGED <<chain, objs, uds, clock, issued, tamperLog, registered>>

\* register_id calls on any thread while at most one mine_pending_ids runs
NextConc ==
  \/ (Quiescent /\ GeneratePqcId(LedgerInfos))
  \/ \E t \in Threads : CallRegisterId(t, Records)
  \/ \E t \in Threads : RegisterLoad(t)
  \/ \E t \in Threads : RegisterAppend(t)
  \/ \E t \in Threads : (Miners = {} /\ CallMinePendingIds(t, {DEFAULT_DIFFICULTY}))
  \/ \E t \in Threads : MineCheck(t)
  \/ \E t \in Threads : MineBuild(t)
  \/ \E t \in Threads : MinePass(t)
  \/ \E t \in Threads : MineAppend(t)
  \/ \E t \in Threads : MineClear(t)

SpecConc == Init /\ [][NextConc]_vars

\* ------------------------------------------------- mine_block on its own
\* last_block.mine_block(difficulty): the block is mined where it is, from
\* the nonce and the hash it has
MineBlock ==
  /\ \E k \in {Len(chain) - 1} : \E difficulty \in Difficulties :
       LET m == mine_block(B(k), difficulty, Heap)
       IN  /\ m.returned
           /\ chain' = [chain EXCEPT ![k + 1] = m.block]
           /\ ret' = [op |-> "mine_block", value |-> TRUE, index |-> k, kind |-> "none",
                      difficulty |-> difficulty]
  /\ UNCHANGED <<pending_ids, lists, objs, uds, clock, issued, tamperLog, registered, calls>>

\* a first block is appended unmined, then the last block is mined at one
\* difficulty after another
NextMine ==
  \/ GeneratePqcId(LedgerInfos)
  \/ RegisterId(Records)
  \/ (Len(chain) = 1 /\ MinePendingIds({0}))
  \/ MineBlock

SpecMine == Init /\ [][NextMine]_vars

\* --------------------------------------------------- app.py: the requests
\* POST /create_and_mine on thread t: the handler builds a user_data dict of
\* its own, calls generate_pqc_id, then register_id, then
\* mine_pending_ids(difficulty=3), all on the module-level blockchain
CreateAndMine(t, infos) ==
  /\ calls[t].pc = "idle"
  /\ Len(objs) < MaxObjs
  /\ Len(uds) < MaxUds
  /\ Len(chain) + Cardinality(Miners) < MaxChain
  /\ \E info \in infos :
       /\ uds' = Append(uds, info)
       /\ objs' = Append(objs, generate_pqc_id(Len(uds) + 1, Len(objs) + 1, clock,
                             [lists |-> lists, objs |-> objs, uds |-> uds']))
       /\ issued' = Append(issued, info)
  /\ calls' = [calls EXCEPT ![t] = [pc |-> "register_id", handler |-> "create_and_mine",
                                    digital_id |-> Len(objs) + 1]]
  /\ ret' = None
  /\ UNCHANGED <<chain, pending_ids, lists, clock, tamperLog, registered>>

\* the requests the development server handles, each on a thread of its own
NextApp ==
  \/ \E t \in Threads : CreateAndMine(t, LedgerInfos)
  \/ \E t \in Threads : RegisterLoad(t)
  \/ \E t \in Threads : RegisterAppend(t)
  \/ \E t \in Threads : MineCheck(t)
  \/ \E t \in Threads : MineBuild(t)
  \/ \E t \in Threads : MinePass(t)
  \/ \E t \in Threads : MineAppend(t)
  \/ \E t \in Threads : MineClear(t)
  \/ IsChainValid

SpecApp == Init /\ [][NextApp]_vars

\* ------------------------------------------------------------ the claims
\* the records of block b as the heap H holds them
BlockData(b, H) ==
  [i \in 1..Len(H.lists[b.digital_ids]) |-> dumps_obj(Obj(H.lists[b.digital_ids][i], H), H)]

\* is_chain_valid returned False
ReturnsFalse(r) == r.value = FALSE /\ r.kind \in {"hash", "link"}
\* the alterations made from outside, overwriting a hash not counted
Alterations == Cardinality({n \in 1..Len(tamperLog) : tamperLog[n].kind # "rehash"})

Heap1 == [lists |-> lists', objs |-> objs', uds |-> uds']

\* C1: after any sequence of register_id and mine_pending_ids calls, with no
\* block mutated from outside, is_chain_valid() returns True; it does so on
\* the genesis-only ledger too
C1_Valid ==
  /\ is_chain_valid(chain, Heap).value = TRUE
  /\ ret.op = "is_chain_valid" => ret.value = TRUE
C1_Witness ==
  /\ Len(chain) >= 3
  /\ lists[pending_ids] # <<>>
  /\ ret.op = "is_chain_valid"
  /\ ret.value = TRUE

\* C2: a mine_pending_ids call that finds a non-empty pending list and returns
\* leaves the chain exactly one block longer and the pending list empty
C2_MineGrows ==
  [][(ret'.op = "mine_pending_ids" /\ lists[pending_ids] # <<>> /\ ret'.kind # "raised")
       => (Len(chain') = Len(chain) + 1 /\ lists'[pending_ids'] = <<>>)]_vars
C2_Witness ==
  /\ ret.op = "mine_pending_ids"
  /\ ret.value = TRUE
  /\ Len(chain) >= 3
  /\ Len(lists[chain[Len(chain)].digital_ids]) = 2
  /\ lists[pending_ids] = <<>>

\* C6: when mine_block(d) returns, d in 0..4, the block's hash begins with d
\* '0' digits and equals the hash recomputed from the block's fields; so does
\* every block at the moment mine_pending_ids appends it
C6_MinedHash ==
  [][(ret'.op = "mine_pending_ids" /\ ret'.value = TRUE)
       => LET b == chain'[Len(chain')]
          IN  /\ Len(chain') = Len(chain) + 1
              /\ b.index > 0
              /\ startswith_zeros(b.hash, ret'.index)
              /\ b.hash = calculate_hash(b, Heap1)]_vars
C6_Witness ==
  /\ ret.op = "mine_pending_ids"
  /\ ret.value = TRUE
  /\ ret.index = 4
  /\ chain[Len(chain)].nonce > 0
  /\ \A i \in 1..4 : chain[Len(chain)].hash.hexstr.head[i] = 0

\* C7: mine_pending_ids on an empty pending list returns normally and changes
\* nothing: the chain, its blocks and their records stay, the list stays empty
C7_EmptyNoop ==
  [][(ret'.op = "mine_pending_ids" /\ lists[pending_ids] = <<>>)
       => (/\ ret'.kind = "noop"
           /\ chain' = chain
           /\ \A i \in 1..Len(chain) : BlockData(chain[i], Heap1) = BlockData(chain[i], Heap)
           /\ lists'[pending_ids'] = <<>>)]_vars
C7_Witness ==
  /\ ret.op = "mine_pending_ids"
  /\ ret.kind = "noop"
  /\ Len(chain) >= 2
  /\ lists[pending_ids] = <<>>

\* C8: every step of register_id, mine_pending_ids and is_chain_valid keeps
\* the chain as a prefix of the new chain, with every field and every record
\* of the blocks already appended as it was
C8_AppendOnly ==
  [][/\ Len(chain') >= Len(chain)
     /\ \A i \in 1..Len(chain) :
          /\ chain'[i] = chain[i]
          /\ BlockData(chain[i], Heap1) = BlockData(chain[i], Heap)]_vars
C8_Witness ==
  /\ Len(chain) >= 2
  /\ lists[chain[2].digital_ids] # <<>>
  /\ lists[pending_ids] # <<>>
  /\ pending_ids # chain[2].digital_ids
  /\ ret = None

Least(S) == CHOOSE x \in S : \A y \in S : x <= y

\* C3 as claimed: changing a user_data value of a record stored in block k
\* of an untouched ledger makes is_chain_valid() return False, the hash check
\* failing at index k
C3_FailsAtK ==
  [][(tamperLog = <<>> /\ Len(tamperLog') = 1 /\ tamperLog'[1].kind = "user_data")
       => is_chain_valid(chain', Heap1) =
            [value |-> FALSE, index |-> tamperLog'[1].k, kind |-> "hash"]]_vars

\* C3 amended: is_chain_valid() returns False, the hash check failing at the
\* first block that stores a record with that user_data dict, which is k
\* unless an earlier block stores such a record too
C3_FailsAtFirst ==
  [][(tamperLog = <<>> /\ Len(tamperLog') = 1 /\ tamperLog'[1].kind = "user_data")
       => /\ tamperLog'[1].k \in tamperLog'[1].blocks
          /\ is_chain_valid(chain', Heap1) =
               [value |-> FALSE, index |-> Least(tamperLog'[1].blocks), kind |-> "hash"]]_vars
C3_Witness ==
  /\ Len(tamperLog) = 1
  /\ tamperLog[1].kind = "user_data"
  /\ tamperLog[1].k = 2
  /\ tamperLog[1].blocks = {2}
  /\ ret = [op |-> "is_chain_valid", value |-> FALSE, index |-> 2, kind |-> "hash"]

\* C4: once chain[k].previous_hash is set to a value other than
\* chain[k-1].hash, is_chain_valid() returns False, with chain[k].hash left
\* as it was and with chain[k].hash overwritten by the recomputed hash
C4_BrokenLink ==
  (Alterations = 1 /\ tamperLog[1].kind = "previous_hash")
    => /\ ReturnsFalse(is_chain_valid(chain, Heap))
       /\ ret.op = "is_chain_valid" => ReturnsFalse(ret)
C4_Witness ==
  /\ Len(tamperLog) = 2
  /\ tamperLog[1].kind = "previous_hash"
  /\ tamperLog[2] = [kind |-> "rehash", k |-> tamperLog[1].k, blocks |-> {tamperLog[1].k}]
  /\ B(tamperLog[1].k).hash = calculate_hash(B(tamperLog[1].k), Heap)
  /\ ret = [op |-> "is_chain_valid", value |-> FALSE, index |-> tamperLog[1].k, kind |-> "link"]

\* the record alterations and the blocks whose hash was overwritten since
Altered == Alterations = 1 /\ tamperLog[1].kind \in {"user_data", "id_type"}
Rehashed == {tamperLog[n].k : n \in {m \in 1..Len(tamperLog) : tamperLog[m].kind = "rehash"}}
LastIndex == Len(chain) - 1

\* C5 as claimed: after any alteration of a record stored in a non-genesis
\* block, the last one included, is_chain_valid() returns False, also when
\* the block's stored hash is overwritten with the recomputed one
C5_AlwaysDetected == Altered => ReturnsFalse(is_chain_valid(chain, Heap))

\* C5 amended: is_chain_valid() returns False after the alteration when a
\* block storing the record has a successor, hash overwritten or not, and
\* when the hash of a block storing it was not overwritten; with the record
\* in the last block only and that block's hash overwritten it returns True
C5_DetectedUnlessLastRehashed ==
  Altered =>
    /\ tamperLog[1].blocks # {}
    /\ (\E k \in tamperLog[1].blocks : k < LastIndex \/ k \notin Rehashed)
         => ReturnsFalse(is_chain_valid(chain, Heap))
    /\ (tamperLog[1].blocks = {LastIndex} /\ LastIndex \in Rehashed)
         => is_chain_valid(chain, Heap).value = TRUE
C5_Witness ==
  /\ Altered
  /\ LastIndex = 2
  /\ tamperLog[1].blocks = {1}
  /\ 1 \in Rehashed
  /\ ret = [op |-> "is_chain_valid", value |-> FALSE, index |-> 2, kind |-> "link"]

\* C9: the record generate_pqc_id returns passes verify_pqc_id right after
\* its creation
C9_FreshVerifies ==
  [][ret'.op = "generate_pqc_id"
       => /\ Len(objs') = Len(objs) + 1
          /\ ret'.index = Len(objs')
          /\ verify_pqc_id(objs'[ret'.index], Heap1) = TRUE]_vars
C9_Witness ==
  /\ ret.op = "generate_pqc_id"
  /\ Len(objs) = 3
  /\ uds[objs[3].user_data]["purpose"] = "X"
  /\ verify_pqc_id(objs[3], Heap)

\* C10: once a value of a record's user_data differs from the value it had
\* when the record was created, public_key and signature being as issued,
\* verify_pqc_id returns False
C10_TamperFailsVerify ==
  /\ \A r \in Records :
       uds[objs[r].user_data] # issued[r] => verify_pqc_id(objs[r], Heap) = FALSE
  /\ (ret.op = "verify_pqc_id" /\ uds[objs[ret.index].user_data] # issued[ret.index])
       => ret.value = FALSE
C10_Witness ==
  /\ ret.op = "verify_pqc_id"
  /\ ret.value = FALSE
  /\ uds[objs[ret.index].user_data]["purpose"] # issued[ret.index]["purpose"]
  /\ uds[objs[ret.index].user_data]["id"] = issued[ret.index]["id"]

\* the record does not pass the cryptographic verification
BadSignature(o) ==
  ~verify(fromhex(o.public_key), data_hash(uds[o.user_data]), fromhex(o.signature))

\* C11: verify_pqc_id returns False, and raises nothing, for every record
\* whose public_key or signature is not hex, whose pqc_scheme is not the
\* supported scheme, or whose signature fails the cryptographic verification
C11_FailClosed ==
  /\ \A r \in Records :
       LET o == objs[r]
       IN  (\/ ~IsHex(o.public_key)
            \/ ~IsHex(o.signature)
            \/ o.pqc_scheme # ML_DSA
            \/ BadSignature(o))
             => verify_pqc_id(o, Heap) = FALSE
  /\ (ret.op = "verify_pqc_id" /\ objs[ret.index].pqc_scheme # ML_DSA) => ret.value = FALSE

\* C12: is_chain_valid() returns True or False and raises nothing, whatever
\* values the blocks and their records were replaced with, values json.dumps
\* cannot encode included
C12_NeverRaises ==
  /\ is_chain_valid(chain, Heap).kind # "raised"
  /\ ret.op = "is_chain_valid" => ret.kind # "raised"

\* the records of blocks 1..k in chain order
RECURSIVE RecordsUpTo(_, _, _)
RecordsUpTo(ch, ls, k) ==
  IF k = 0 THEN <<>> ELSE RecordsUpTo(ch, ls, k - 1) \o ls[ch[k + 1].digital_ids]
\* the records of all blocks after genesis, then the pending ones
AllRecords(ch, ls, p) == RecordsUpTo(ch, ls, Len(ch) - 1) \o ls[p]
Count(r, seq) == Cardinality({i \in 1..Len(seq) : seq[i] = r})

\* C13: whatever the interleaving of register_id calls with a running
\* mine_pending_ids, once the calls have returned every registered record is
\* in the blocks and the pending list together as often as it was
\* registered (not dropped, not included twice), and the stored hash of a
\* block that holds it is the hash recomputed over the block's records
C13_RegisterAtomic ==
  Quiescent =>
    \A r \in Records :
      /\ Count(r, AllRecords(chain, lists, pending_ids)) = Count(r, registered)
      /\ \A k \in BlocksOfObj(r) : B(k).hash = calculate_hash(B(k), Heap)

\* C14: Blockchain() yields a chain of exactly one block, the genesis block:
\* index 0, the fixed text as its only record, previous_hash "0", nonce 0,
\* its hash the one recomputed from those fields (no leading zeros asked
\* for); the pending list is empty
C14_New ==
  ret.op = "init" =>
    /\ Len(chain) = 1
    /\ chain[1].index = 0
    /\ BlockData(chain[1], Heap) = << [str |-> GenesisText] >>
    /\ chain[1].previous_hash = [str |-> "0"]
    /\ chain[1].nonce = 0
    /\ chain[1].hash = calculate_hash(chain[1], Heap)
    /\ lists[pending_ids] = <<>>
    /\ pending_ids # chain[1].digital_ids
C14_Witness ==
  /\ ret.op = "init"
  /\ Len(chain) = 1
  /\ B(0).nonce = 0
  /\ ~startswith_zeros(B(0).hash, DEFAULT_DIFFICULTY)

\* every block after genesis carries its position as index and the stored
\* hash of the block before it as previous_hash
Linked(ch) ==
  \A k \in 1..(Len(ch) - 1) :
    /\ ch[k + 1].index = k
    /\ ch[k + 1].previous_hash = ch[k].hash

\* C15: in every state reached by register_id and mine_pending_ids calls,
\* chain[i].index = i and chain[i].previous_hash = chain[i-1].hash for every
\* i >= 1; the block a mine_pending_ids call appends has the index of the
\* last block at the start of the call plus one and that block's hash as
\* previous_hash
C15_IndexAndLink ==
  [][/\ Linked(chain)
     /\ Linked(chain')
     /\ (ret'.op = "mine_pending_ids" /\ ret'.value = TRUE)
          => /\ Len(chain') = Len(chain) + 1
             /\ chain'[Len(chain')].index = chain[Len(chain)].index + 1
             /\ chain'[Len(chain')].previous_hash = chain[Len(chain)].hash]_vars
C15_Witness ==
  /\ ret.op = "mine_pending_ids"
  /\ ret.value = TRUE
  /\ Len(chain) = 3
  /\ B(2).index = 2
  /\ B(2).previous_hash = B(1).hash
  /\ B(1).nonce > 0

\* C16: register_id checks nothing and appends exactly its argument at the
\* tail of the pending list, the chain staying as it is; and in every state
\* reached by register_id and mine_pending_ids calls the records of blocks
\* 1..n followed by the pending ones are the registered records in the
\* order of their registration
C16_NothingLost ==
  [][/\ AllRecords(chain, lists, pending_ids) = registered
     /\ AllRecords(chain', lists', pending_ids') = registered'
     /\ registered' # registered
          => /\ Len(registered') = Len(registered) + 1
             /\ lists'[pending_ids'] =
                  Append(lists[pending_ids], registered'[Len(registered')])
             /\ chain' = chain
             /\ \A i \in 1..Len(chain) : BlockData(chain[i], Heap1) = BlockData(chain[i], Heap)]_vars
C16_Witness ==
  /\ ret = None
  /\ Len(chain) = 3
  /\ Len(registered) = 4
  /\ registered[4] = Opaque
  /\ registered[1] # registered[2]
  /\ lists[pending_ids] = << Opaque >>

\* C17: mine_block(d) changes the nonce and the hash of its block and
\* nothing else, and ends at the first nonce that meets the target: the
\* final nonce is the least n >= the starting nonce for which the hash
\* recomputed with nonce n begins with d zeros; it is the starting nonce,
\* the block untouched, when the hash already begins with d zeros, as it
\* always does for d = 0
C17_MineFrame ==
  [][ret'.op = "mine_block"
       => LET k == ret'.index
              d == ret'.difficulty
              b == chain[k + 1]
              b1 == chain'[k + 1]
              hash_at(n) == calculate_hash([b EXCEPT !.nonce = n], Heap)
          IN  /\ chain' = [chain EXCEPT ![k + 1].nonce = b1.nonce, ![k + 1].hash = b1.hash]
              /\ \A j \in 1..Len(chain) : BlockData(chain[j], Heap1) = BlockData(chain[j], Heap)
              /\ lists'[pending_ids'] = lists[pending_ids]
              /\ b1.nonce >= b.nonce
              /\ b1.hash = hash_at(b1.nonce)
              /\ startswith_zeros(hash_at(b1.nonce), d)
              /\ \A n \in b.nonce..(b1.nonce - 1) : ~startswith_zeros(hash_at(n), d)
              /\ startswith_zeros(b.hash, d) => b1 = b
              /\ d = 0 => b1 = b]_vars
C17_Witness ==
  /\ ret.op = "mine_block"
  /\ ret.difficulty = 3
  /\ ret.index = 1
  /\ Len(chain) = 2
  /\ B(1).nonce > 2
  /\ startswith_zeros(B(1).hash, 3)
  /\ ~startswith_zeros(calculate_hash([B(1) EXCEPT !.nonce = 1], Heap), 1)
  /\ startswith_zeros(calculate_hash([B(1) EXCEPT !.nonce = 2], Heap), 1)

\* the blocks that fail the hash check, the link check
HashBroken == {k \in Indices \ {0} : B(k).hash # calculate_hash(B(k), Heap)}
LinkBroken == {k \in Indices \ {0} : B(k).previous_hash # B(k - 1).hash}
\* the only alteration made is chain[k].previous_hash = v
OnlyPreviousHash == Len(tamperLog) = 1 /\ tamperLog[1].kind = "previous_hash"

\* C18 as claimed: when is_chain_valid() returns False the block it names is
\* the first one that fails the hash check or the link check, the failure
\* it names is one that block has, and a block whose only alteration is its
\* previous_hash is named with a link failure
C18_NamesLink ==
  LET r == is_chain_valid(chain, Heap)
  IN  /\ ReturnsFalse(r) =>
           /\ r.index = Least(HashBroken \cup LinkBroken)
           /\ r.kind = "hash" => r.index \in HashBroken
           /\ r.kind = "link" => r.index \in LinkBroken
      /\ OnlyPreviousHash => r = [value |-> FALSE, index |-> tamperLog[1].k, kind |-> "link"]

\* C18 amended: the block named is the first one that fails either check;
\* the failure named is the hash failure when that block fails the hash
\* check, the link failure otherwise; a block whose only alteration is its
\* previous_hash is named with a hash failure, previous_hash being one of
\* the hashed fields, and with a link failure once its stored hash has been
\* overwritten with the recomputed one
C18_NamesFirstFailure ==
  LET r == is_chain_valid(chain, Heap)
  IN  /\ ReturnsFalse(r) =>
           /\ r.index = Least(HashBroken \cup LinkBroken)
           /\ r.kind = (IF r.index \in HashBroken THEN "hash" ELSE "link")
      /\ ret.op = "is_chain_valid" => ret = Result("is_chain_valid", r)
      /\ OnlyPreviousHash => r = [value |-> FALSE, index |-> tamperLog[1].k, kind |-> "hash"]
      /\ (Alterations = 1 /\ tamperLog[1].kind = "previous_hash" /\ Len(tamperLog) = 2
            /\ tamperLog[2].k = tamperLog[1].k)
           => r = [value |-> FALSE, index |-> tamperLog[1].k, kind |-> "link"]
C18_Witness ==
  /\ OnlyPreviousHash
  /\ Len(chain) = 3
  /\ tamperLog[1].k = 2
  /\ B(2).previous_hash = B(0).hash
  /\ HashBroken = {2}
  /\ LinkBroken = {2}
  /\ ret = [op |-> "is_chain_valid", value |-> FALSE, index |-> 2, kind |-> "hash"]

\* the last alteration made was one of the genesis block
GenesisAltered == tamperLog # <<>> /\ tamperLog[Len(tamperLog)].kind = "genesis"

\* C19: is_chain_valid() checks no field of the genesis block: whatever its
\* index, timestamp, records, previous_hash and nonce are set to, and whether
\* or not its stored hash is the recomputed one, the result is the result
\* for the chain as it was with the stored hash of genesis alone replaced,
\* which is compared with chain[1].previous_hash; on a ledger of the
\* genesis block alone the result is True
C19_GenesisExempt ==
  [][(Len(tamperLog') = Len(tamperLog) + 1 /\ tamperLog'[Len(tamperLog')].kind = "genesis")
       => LET r == is_chain_valid(chain', Heap1)
          IN  /\ r = is_chain_valid([chain EXCEPT ![1].hash = chain'[1].hash], Heap)
              /\ chain'[1].hash = chain[1].hash => r = is_chain_valid(chain, Heap)
              /\ (chain'[1].hash # chain[1].hash /\ Len(chain) > 1 /\ tamperLog = <<>>)
                   => r = [value |-> FALSE, index |-> 1, kind |-> "link"]
              /\ Len(chain) = 1 => r.value = TRUE]_vars
C19_Witness ==
  /\ GenesisAltered
  /\ Len(chain) = 3
  /\ B(0).index # 0
  /\ B(0).nonce # 0
  /\ ~Serializable(B(0).digital_ids, Heap)
  /\ B(0).previous_hash = [str |-> "f00d"]
  /\ B(0).hash = B(1).previous_hash
  /\ ret = [op |-> "is_chain_valid", value |-> TRUE, index |-> 0, kind |-> "none"]

\* C20: whatever the interleaving of two create_and_mine requests, once
\* both have returned is_chain_valid() is True, the blocks carry the
\* indices 0..n-1 in order, and each of the two records is in exactly one
\* block
C20_Serialized ==
  Quiescent =>
    /\ is_chain_valid(chain, Heap).value = TRUE
    /\ \A k \in Indices : B(k).index = k
    /\ \A r \in Records : Count(r, RecordsUpTo(chain, lists, LastIndex)) = 1

====
